---- MODULE Spec2Model ----
(***************************************************************************)
(* Model of the norse repository's automation and of the documented usage  *)
(* of its neuron cells.                                                    *)
(*                                                                         *)
(* Part 1: the three workflow files (Publish To Pypi, Documentation Build, *)
(* Python package) run by the workflow engine: an event starts the         *)
(* workflows whose `on:` matches, every job of a started workflow is       *)
(* queued (no job declares `needs`), runners take queued jobs, a job runs  *)
(* its steps in the order of its `steps:` list, a failing step ends the    *)
(* job, and a failing job of a matrix whose strategy does not switch       *)
(* fail-fast off cancels the other jobs of that matrix.                    *)
(*                                                                         *)
(* Part 2: the conda recipe (requirement sets and test stage).             *)
(*                                                                         *)
(* Part 3: the documented calling convention of a neuron cell, and the     *)
(* documented variants of a neuron model without and with time.            *)
(***************************************************************************)
EXTENDS Integers, Sequences, FiniteSets, TLC

\* Number of runners that execute jobs at the same time.
MaxRunners == 2

\* Number of jobs of one run that a behaviour follows.
MaxJobs == 9

\* Number of times the documented cell is called.
MaxCalls == 5

\* Largest input current given to the cell in one call.
MaxInput == 2

\* Largest number of time steps of an input with time.
MaxSteps == 6

VARIABLES
  event, act, queue, job,          \* a workflow run
  env, tpc,                        \* the recipe's test stage
  cpc, calls, state, spikes, arg, prev,  \* the documented use of a cell
  model, xs, zs, cstate, mres      \* a neuron model without and with time

civars == <<event, act, queue, job>>

recipevars == <<env, tpc>>

cellvars == <<cpc, calls, state, spikes, arg, prev>>

timevars == <<model, xs, zs, cstate, mres>>

vars == <<civars, recipevars, cellvars, timevars>>

---------------------------------------------------------------------------
\* Steps: name, what the step does, its `if:` (absent: "success()"), its
\* `continue-on-error:` (absent: FALSE) and whether an error of what the step
\* does fails the step (always, except for an action with an input that says
\* otherwise: `fail_ci_if_error` of the coverage action).

Step(n, k) ==
  [name |-> n, kind |-> k, cond |-> "success()", coe |-> FALSE, failCi |-> TRUE]

StepIf(n, k, c) ==
  [name |-> n, kind |-> k, cond |-> c, coe |-> FALSE, failCi |-> TRUE]

StepWith(n, k, f) ==
  [name |-> n, kind |-> k, cond |-> "success()", coe |-> FALSE, failCi |-> f]

python_version == <<"3.7", "3.8", "3.9">>

\* ---- Publish To Pypi ----
\* The publish workflow triggered by pushes as the other two are.
PublishOn_Push == [name |-> "push", branches_ignore |-> {"master"}]

PublishOn == [name |-> "release", types |-> {"published"}]

\* Inputs of the manylinux build action: the image of the action's tag and
\* the CPython tags to build for.
linux_build_with ==
  [image |-> "manylinux2014_x86_64",
   python_versions |-> <<"cp37-cp37m", "cp38-cp38", "cp39-cp39">>,
   build_requirements |-> <<"torch">>]

linux_build_steps ==
  << Step("actions/checkout@v2", "checkout"),
     Step("Build manylinux Python wheels", "build"),
     Step("Publish wheels to PyPI", "upload") >>

\* The publish step marked `if: always()`.
mac_windows_build_steps_PublishAlways ==
  << Step("actions/checkout@v2", "checkout"),
     Step("Set up Python 3.x", "setup"),
     Step("Install build dependencies", "install"),
     Step("Run unit tests", "test"),
     Step("Build wheel", "build"),
     StepIf("Publish wheels to PyPI", "upload", "always()") >>

mac_windows_build_steps ==
  << Step("actions/checkout@v2", "checkout"),
     Step("Set up Python 3.x", "setup"),
     Step("Install build dependencies", "install"),
     Step("Run unit tests", "test"),
     Step("Build wheel", "build"),
     Step("Publish wheels to PyPI", "upload") >>

\* `python setup.py bdist_wheel sdist` of the step Build wheel, and the
\* `dist/*` that `twine upload` is given by the publish step of both jobs.
mac_windows_build_wheel == <<"bdist_wheel", "sdist">>

twine_upload == "dist/*"

\* The matrix without Windows.
mac_windows_build_os_MacOnly == <<"macos-latest">>

mac_windows_build_os == <<"macos-latest", "windows-latest">>

\* ---- Documentation Build ----
DocsOn == [name |-> "push", branches_ignore |-> {"master"}]

\* The docs compiled before the Python dependencies are installed.
build_docs_steps_CompileFirst ==
  << Step("actions/checkout@v1", "checkout"),
     Step("Set up Python", "setup"),
     Step("Install system dependencies", "install-system"),
     Step("Fix sphinx-jupyterbook-latex bug", "install-fix"),
     Step("Compile docs", "docs"),
     Step("Install python dependencies", "install") >>

build_docs_steps ==
  << Step("actions/checkout@v1", "checkout"),
     Step("Set up Python", "setup"),
     Step("Install system dependencies", "install-system"),
     Step("Fix sphinx-jupyterbook-latex bug", "install-fix"),
     Step("Install python dependencies", "install"),
     Step("Compile docs", "docs") >>

\* ---- Python package ----
PackageOn == [name |-> "push", branches_ignore |-> {"master"}]

\* The unit tests marked continue-on-error.
build_python_ubuntu_steps_TestsContinue ==
  << Step("actions/checkout@master", "checkout"),
     StepIf("Cache", "cache", "!env.ACT"),
     Step("Install Python", "setup"),
     Step("Install GCC", "install-system"),
     Step("Install test dependencies", "install-test"),
     Step("Install optional libraries", "install-optional"),
     Step("Install package", "install"),
     [name |-> "Run unit tests", kind |-> "test", cond |-> "success()",
      coe |-> TRUE, failCi |-> TRUE],
     Step("Type check", "typecheck"),
     Step("Lint", "lint"),
     StepWith("Upload coverage", "coverage", TRUE) >>

\* Lint moved in front of the type check.
build_python_ubuntu_steps_LintFirst ==
  << Step("actions/checkout@master", "checkout"),
     StepIf("Cache", "cache", "!env.ACT"),
     Step("Install Python", "setup"),
     Step("Install GCC", "install-system"),
     Step("Install test dependencies", "install-test"),
     Step("Install optional libraries", "install-optional"),
     Step("Install package", "install"),
     Step("Run unit tests", "test"),
     Step("Lint", "lint"),
     Step("Type check", "typecheck"),
     StepWith("Upload coverage", "coverage", TRUE) >>

\* The coverage action with fail_ci_if_error: false.
build_python_ubuntu_steps_IgnoreCoverageError ==
  << Step("actions/checkout@master", "checkout"),
     StepIf("Cache", "cache", "!env.ACT"),
     Step("Install Python", "setup"),
     Step("Install GCC", "install-system"),
     Step("Install test dependencies", "install-test"),
     Step("Install optional libraries", "install-optional"),
     Step("Install package", "install"),
     Step("Run unit tests", "test"),
     Step("Type check", "typecheck"),
     Step("Lint", "lint"),
     StepWith("Upload coverage", "coverage", FALSE) >>

build_python_ubuntu_steps ==
  << Step("actions/checkout@master", "checkout"),
     StepIf("Cache", "cache", "!env.ACT"),
     Step("Install Python", "setup"),
     Step("Install GCC", "install-system"),
     Step("Install test dependencies", "install-test"),
     Step("Install optional libraries", "install-optional"),
     Step("Install package", "install"),
     Step("Run unit tests", "test"),
     Step("Type check", "typecheck"),
     Step("Lint", "lint"),
     StepWith("Upload coverage", "coverage", TRUE) >>

\* The wheel built before the unit tests are run.
build_python_mac_windows_steps_BuildFirst ==
  << Step("actions/checkout@v2", "checkout"),
     Step("Set up Python 3.x", "setup"),
     Step("Install build dependencies", "install"),
     Step("Build wheel", "build"),
     Step("Run unit tests", "test") >>

build_python_mac_windows_steps ==
  << Step("actions/checkout@v2", "checkout"),
     Step("Set up Python 3.x", "setup"),
     Step("Install build dependencies", "install"),
     Step("Run unit tests", "test"),
     Step("Build wheel", "build") >>

build_python_mac_windows_os == <<"ubuntu-latest", "macos-latest", "windows-latest">>

---------------------------------------------------------------------------
\* Jobs.  A job definition: its workflow, its id, its matrix (a sequence of
\* [os, py] combinations; one combination for a job without matrix),
\* its steps, the jobs it needs and whether its matrix is fail-fast (the
\* engine's default when `strategy.fail-fast` is absent).

RECURSIVE Cross(_, _, _)
Cross(outer, inner, osFirst) ==
  IF outer = <<>> THEN <<>>
  ELSE [i \in 1..Len(inner) |->
          IF osFirst THEN [os |-> Head(outer), py |-> inner[i]]
                     ELSE [os |-> inner[i], py |-> Head(outer)]]
       \o Cross(Tail(outer), inner, osFirst)

\* The linux job waiting for itself.
linux_build_NeedsItself ==
  [wf |-> "Publish To Pypi", id |-> "linux-build",
   matrix |-> << [os |-> "ubuntu-latest", py |-> "none"] >>, isMatrix |-> FALSE,
   steps |-> linux_build_steps, needs |-> {"linux-build"}, failFast |-> TRUE]

linux_build ==
  [wf |-> "Publish To Pypi", id |-> "linux-build",
   matrix |-> << [os |-> "ubuntu-latest", py |-> "none"] >>, isMatrix |-> FALSE,
   steps |-> linux_build_steps, needs |-> {}, failFast |-> TRUE]

mac_windows_build ==
  [wf |-> "Publish To Pypi", id |-> "mac-windows-build",
   matrix |-> Cross(mac_windows_build_os, python_version, TRUE), isMatrix |-> TRUE,
   steps |-> mac_windows_build_steps, needs |-> {}, failFast |-> TRUE]

build_docs ==
  [wf |-> "Documentation Build", id |-> "build-docs",
   matrix |-> << [os |-> "ubuntu-latest", py |-> "3.x"] >>, isMatrix |-> FALSE,
   steps |-> build_docs_steps, needs |-> {}, failFast |-> TRUE]

build_python_ubuntu ==
  [wf |-> "Python package", id |-> "build-python-ubuntu",
   matrix |-> Cross(<<"ubuntu-latest">>, python_version, TRUE), isMatrix |-> TRUE,
   steps |-> build_python_ubuntu_steps, needs |-> {}, failFast |-> TRUE]

build_python_mac_windows ==
  [wf |-> "Python package", id |-> "build-python-mac-windows",
   matrix |-> Cross(python_version, build_python_mac_windows_os, FALSE), isMatrix |-> TRUE,
   steps |-> build_python_mac_windows_steps, needs |-> {}, failFast |-> TRUE]

Workflows ==
  << [name |-> "Publish To Pypi", on |-> PublishOn,
      jobs |-> <<linux_build, mac_windows_build>>],
     [name |-> "Documentation Build", on |-> DocsOn,
      jobs |-> <<build_docs>>],
     [name |-> "Python package", on |-> PackageOn,
      jobs |-> <<build_python_ubuntu, build_python_mac_windows>>] >>

RECURSIVE Flatten(_)
Flatten(ss) == IF ss = <<>> THEN <<>> ELSE Head(ss) \o Flatten(Tail(ss))

JobDefs == Flatten([w \in 1..Len(Workflows) |-> Workflows[w].jobs])

\* The jobs a job definition expands to, in matrix order.
Expand(d) ==
  [i \in 1..Len(d.matrix) |->
     [wf |-> d.wf, id |-> d.id, os |-> d.matrix[i].os, py |-> d.matrix[i].py]]

AllJobsSeq == Flatten([k \in 1..Len(JobDefs) |-> Expand(JobDefs[k])])

Range(s) == {s[i] : i \in 1..Len(s)}

JobIds == Range(AllJobsSeq)

Def(j) == CHOOSE d \in Range(JobDefs) : d.wf = j.wf /\ d.id = j.id

Steps(j) == Def(j).steps

WorkflowOf(j) == CHOOSE w \in Range(Workflows) : w.name = j.wf

---------------------------------------------------------------------------
\* Events and triggers.

NoEvent == [name |-> "none", arg |-> "none"]

Events ==
  { [name |-> "push", arg |-> b] : b \in {"master", "feature", "docs-fix"} } \cup
  { [name |-> "release", arg |-> t] : t \in {"published", "created"} } \cup
  { [name |-> "pull_request", arg |-> "master"] }

\* `on:` of a workflow against an event.
Matches(on, e) ==
  /\ on.name = e.name
  /\ \/ on.name = "push" /\ e.arg \notin on.branches_ignore
     \/ on.name = "release" /\ e.arg \in on.types

\* The workflows an event starts, and the jobs of a workflow in the order the
\* file defines them.
TriggeredWorkflows(e) == {w \in Range(Workflows) : Matches(w.on, e)}

RECURSIVE Size(_)
Size(D) ==
  IF D = {} THEN 0
  ELSE LET d == CHOOSE x \in D : TRUE IN Len(d.matrix) + Size(D \ {d})

\* Job definitions of one workflow do not interact (none has `needs`, and
\* fail-fast stays within a matrix).  A behaviour follows the jobs of a largest
\* selection of the workflow's job definitions that has at most MaxJobs jobs.
Fits(w) == {D \in SUBSET Range(w.jobs) : Size(D) <= MaxJobs}

Selections(w) == {D \in Fits(w) : \A E \in Fits(w) : ~(D \subseteq E /\ D # E)}

\* The jobs of the definitions D, in the order the file defines them.
JobsOf(D) == SelectSeq(AllJobsSeq, LAMBDA j : Def(j) \in D)

---------------------------------------------------------------------------
\* The run.  job[j].status is "none" (never queued), "queued", "in_progress",
\* "success", "failure" or "cancelled"; job[j].log[i] is the conclusion of
\* step i of the job: "success", "failure" (what the step does ended in error),
\* "skipped" or "cancelled".

Idle == [status |-> "none", log |-> <<>>]

Running == {j \in JobIds : job[j].status = "in_progress"}

Completed(j) == job[j].status \in {"success", "failure", "cancelled"}

\* The step the job executes next.
Pc(j) == Len(job[j].log) + 1

\* Conclusions of the steps from i on, none of which runs.
Skipped(j, i) == [k \in 1..(Len(Steps(j)) - i + 1) |-> "skipped"]

\* An error in step i fails the step, and the failed step fails the job.
StepFailed(j, log, i) ==
  log[i] = "failure" /\ Steps(j)[i].failCi /\ ~Steps(j)[i].coe

\* A job has failed so far when one of its steps has failed it.
Failed(j, log) == \E i \in 1..Len(log) : StepFailed(j, log, i)

\* The `if:` of a step, evaluated when the step is reached.
CondHolds(j, st, log) ==
  CASE st.cond = "success()" -> ~Failed(j, log)
    [] st.cond = "always()" -> TRUE
    [] st.cond = "!env.ACT" -> ~act /\ ~Failed(j, log)

\* The job's conclusion once its last step has concluded.
Conclude(j, log) ==
  [status |-> IF Failed(j, log) THEN "failure" ELSE "success", log |-> log]

\* Record the conclusion c of the current step; later steps whose `if:` does
\* not hold are skipped as they are reached.
RECURSIVE Advance(_, _)
Advance(j, log) ==
  IF Len(log) = Len(Steps(j)) THEN Conclude(j, log)
  ELSE IF CondHolds(j, Steps(j)[Len(log) + 1], log)
       THEN [status |-> "in_progress", log |-> log]
       ELSE Advance(j, Append(log, "skipped"))

\* Jobs of the same matrix as j.
Siblings(j) == {k \in JobIds \ {j} : k.wf = j.wf /\ k.id = j.id}

\* A failed job cancelling every other job of its workflow run.
CancelledBy_WholeRun(j, k) ==
  /\ k \in JobIds \ {j} /\ k.wf = j.wf
  /\ job[k].status \in {"queued", "in_progress"}

\* What a failed job does to job k of the run: with fail-fast, the queued and
\* in-progress jobs of the same matrix are cancelled.
CancelledBy(j, k) ==
  /\ Def(j).isMatrix /\ Def(j).failFast
  /\ k \in Siblings(j)
  /\ job[k].status \in {"queued", "in_progress"}

Cancel(k) ==
  [status |-> "cancelled",
   log |-> IF job[k].status = "in_progress"
           THEN Append(job[k].log, "cancelled") \o Skipped(k, Pc(k) + 1)
           ELSE Skipped(k, 1)]

CIStart ==
  /\ event = NoEvent
  /\ act \in BOOLEAN
  /\ queue = <<>>
  /\ job = [j \in JobIds |-> Idle]

\* An event arrives and starts a run of every workflow it triggers.  Runs of
\* different workflows share nothing, so a behaviour follows one of them: the
\* jobs of the selection D of workflow w are queued.
Trigger(e, w, D) ==
  /\ event = NoEvent
  /\ w \in TriggeredWorkflows(e)
  /\ D \in Selections(w)
  /\ event' = e
  /\ queue' = JobsOf(D)
  /\ job' = [j \in JobIds |->
               IF Def(j) \in D THEN [status |-> "queued", log |-> <<>>] ELSE job[j]]
  /\ UNCHANGED <<act, recipevars, cellvars, timevars>>

\* An event arrives that triggers no workflow: nothing is queued.
Ignore(e) ==
  /\ event = NoEvent
  /\ TriggeredWorkflows(e) = {}
  /\ event' = e
  /\ UNCHANGED <<act, queue, job, recipevars, cellvars, timevars>>

\* A free runner takes the next queued job, whose needs (none) are met.
StartJob ==
  /\ queue # <<>>
  /\ Cardinality(Running) < MaxRunners
  /\ LET j == Head(queue) IN
       /\ \A n \in Def(j).needs : \E k \in JobIds : k.id = n /\ job[k].status = "success"
       /\ job' = [job EXCEPT ![j] = Advance(j, <<>>)]
  /\ queue' = Tail(queue)
  /\ UNCHANGED <<event, act, recipevars, cellvars, timevars>>

\* The current step of a running job succeeds.
StepSucceeds(j) ==
  /\ job[j].status = "in_progress"
  /\ job' = [job EXCEPT ![j] = Advance(j, Append(job[j].log, "success"))]
  /\ UNCHANGED <<event, act, queue, recipevars, cellvars, timevars>>

\* The current step of a running job fails.
StepFails(j) ==
  /\ job[j].status = "in_progress"
  /\ LET after == Advance(j, Append(job[j].log, "failure")) IN
       /\ job' = [k \in JobIds |->
                    IF k = j THEN after
                    ELSE IF after.status = "failure" /\ CancelledBy(j, k) THEN Cancel(k)
                    ELSE job[k]]
       /\ queue' = IF after.status = "failure"
                   THEN SelectSeq(queue, LAMBDA k : ~CancelledBy(j, k))
                   ELSE queue
  /\ UNCHANGED <<event, act, recipevars, cellvars, timevars>>

---------------------------------------------------------------------------
\* The conda recipe: requirement sets of the output and its test stage.

version == "0.0.7RC2"

recipe_name == "norse"

requirements_build == {"cmake", "gxx_linux-64", "cxx-compiler", "pytorch"}

requirements_host ==
  {"numpy", "setuptools", "typing_extensions", "dataclasses", "ninja", "libuv",
   "pkg-config", "pip"}

requirements_run ==
  {"python", "pip", "pytorch", "torchvision", "dataclasses", "ninja", "typing_extensions"}

\* test.requires without pytest-xdist.
test_requires_NoXdist == {"pytest"}

test_requires == {"pytest", "pytest-xdist"}

test_imports == <<"norse", "torch">>

test_commands == << [tool |-> "pytest", options |-> <<"-n", "-vv">>] >>

\* What a package of the test environment brings: modules to import, tools
\* to invoke and options of tools.
Provides(p) ==
  CASE p = "norse" -> {<<"module", "norse">>}
    [] p = "pytorch" -> {<<"module", "torch">>}
    [] p = "torchvision" -> {<<"module", "torchvision">>}
    [] p = "python" -> {<<"tool", "python">>}
    [] p = "pip" -> {<<"tool", "pip">>, <<"module", "pip">>}
    [] p = "pytest" -> {<<"tool", "pytest">>, <<"option", "-vv">>, <<"module", "pytest">>}
    [] p = "pytest-xdist" -> {<<"option", "-n">>, <<"module", "xdist">>}
    [] p = "numpy" -> {<<"module", "numpy">>}
    [] OTHER -> {}

\* The packages the test environment is made of: the built output, its run
\* requirements and the test requirements.
TestEnv == {recipe_name} \cup requirements_run \cup test_requires

Available == UNION {Provides(p) : p \in env}

\* What the n-th import and the n-th command of the test stage use.
ImportNeeds(n) == {<<"tool", "python">>, <<"module", test_imports[n]>>}

CommandNeeds(n) ==
  {<<"tool", test_commands[n].tool>>} \cup
  {<<"option", test_commands[n].options[k]>> : k \in 1..Len(test_commands[n].options)}

RecipeStart ==
  /\ env = {}
  /\ tpc = [stage |-> "env", n |-> 0]

\* The test environment is filled, one package at a time, in any order.
Install(p) ==
  /\ tpc.stage = "env"
  /\ p \in TestEnv \ env
  /\ env' = env \cup {p}
  /\ tpc' = IF env' = TestEnv THEN [stage |-> "imports", n |-> 1] ELSE tpc
  /\ UNCHANGED <<civars, cellvars, timevars>>

\* The next import of test.imports is tried.
RunImport ==
  /\ tpc.stage = "imports"
  /\ tpc' = IF ~(ImportNeeds(tpc.n) \subseteq Available) THEN [stage |-> "failed", n |-> tpc.n]
            ELSE IF tpc.n < Len(test_imports) THEN [stage |-> "imports", n |-> tpc.n + 1]
            ELSE [stage |-> "commands", n |-> 1]
  /\ UNCHANGED <<env, civars, cellvars, timevars>>

\* The next command of test.commands is run; the test suite itself passes or
\* fails.
RunCommand(ok) ==
  /\ tpc.stage = "commands"
  /\ tpc' = IF ~(CommandNeeds(tpc.n) \subseteq Available) THEN [stage |-> "failed", n |-> tpc.n]
            ELSE IF ~ok THEN [stage |-> "tests-failed", n |-> tpc.n]
            ELSE IF tpc.n < Len(test_commands) THEN [stage |-> "commands", n |-> tpc.n + 1]
            ELSE [stage |-> "passed", n |-> tpc.n]
  /\ UNCHANGED <<env, civars, cellvars, timevars>>

RecipeNext ==
  \/ \E p \in TestEnv : Install(p)
  \/ RunImport
  \/ \E ok \in BOOLEAN : RunCommand(ok)

---------------------------------------------------------------------------
\* The documented use of a neuron cell (working.ipynb): the cell is built,
\* called a first time without state and then called with the state the call
\* before returned.  The cell itself is the library's leaky integrate-and-fire
\* step, with the time constants the documentation prints; values are held in
\* units of dt.

\* What the documentation shows `norse.__version__` to be (spiking.ipynb).
norse_version_shown == "0.0.7RC3"

tau_syn_inv == 200

tau_mem_inv == 100

DtInv == 1000

v_th == 1

v_reset == 0

Unit == DtInv

NoState == [none |-> TRUE]

\* The resting voltage raised above the threshold.
v_leak_AboveThreshold == v_th + 1

v_leak == 0

\* The state a cell starts from when it is called without one.
InitialState == [v |-> v_leak * Unit, i |-> 0]

\* The membrane voltage of a step: the voltage of the state with the current
\* integrated into it.
MembraneVoltage(s) == s.v + (tau_mem_inv * ((v_leak * Unit - s.v) + s.i)) \div DtInv

\* One step of the cell: the current is integrated into the voltage and
\* decays, a spike is emitted when the voltage is above the threshold and the
\* voltage is reset, and the input is added to the current.
LIFStep(data, s) ==
  LET v_decayed == MembraneVoltage(s)
      i_decayed == s.i - (tau_syn_inv * s.i) \div DtInv
      z == IF v_decayed > v_th * Unit THEN 1 ELSE 0
  IN [spikes |-> z,
      state |-> [v |-> IF z = 1 THEN v_reset * Unit ELSE v_decayed,
                 i |-> i_decayed + data * Unit]]

\* cell(data) and cell(data, state).
LIFCell(data, s) == LIFStep(data, IF s = NoState THEN InitialState ELSE s)

\* The call passing no state, as the first call does.
StateArg_None == NoState

\* The state argument of `cell(data, state)`.
StateArg == state

CellStart ==
  /\ cpc = "start"
  /\ calls = 0
  /\ state = NoState
  /\ spikes = 0
  /\ arg = NoState
  /\ prev = NoState

\* cell = norse.LIFCell()
Construct ==
  /\ cpc = "start"
  /\ cpc' = "built"
  /\ UNCHANGED <<calls, state, spikes, arg, prev, civars, recipevars, timevars>>

\* spikes, state = cell(data)
FirstCall(data) ==
  /\ cpc = "built"
  /\ LET r == LIFCell(data, NoState) IN
       /\ spikes' = r.spikes
       /\ state' = r.state
  /\ arg' = NoState
  /\ prev' = state
  /\ calls' = 1
  /\ cpc' = "called"
  /\ UNCHANGED <<civars, recipevars, timevars>>

\* spikes, state = cell(data, state)
NextCall(data) ==
  /\ cpc = "called"
  /\ calls < MaxCalls
  /\ LET r == LIFCell(data, StateArg) IN
       /\ spikes' = r.spikes
       /\ state' = r.state
  /\ arg' = StateArg
  /\ prev' = state
  /\ calls' = calls + 1
  /\ UNCHANGED <<cpc, civars, recipevars, timevars>>

\* spikes, state = cell(data), again and again: the state a call returns is
\* never given to the next call.
FreshCall(data) ==
  /\ cpc \in {"built", "fresh"}
  /\ calls < MaxCalls
  /\ LET r == LIFCell(data, NoState) IN
       /\ spikes' = r.spikes
       /\ state' = r.state
  /\ arg' = NoState
  /\ prev' = state
  /\ calls' = calls + 1
  /\ cpc' = "fresh"
  /\ UNCHANGED <<civars, recipevars, timevars>>

CellNext ==
  \/ Construct
  \/ \E data \in 0..MaxInput : FirstCall(data)
  \/ \E data \in 0..MaxInput : NextCall(data)

---------------------------------------------------------------------------
\* Neuron dynamics and time (working.ipynb): a neuron model comes without and
\* with time and without and with recurrence.  The model of the table is the
\* long short-term memory neuron, a leaky integrate-and-fire neuron whose
\* threshold adapts: the state holds the last spike z, the voltage v, the
\* current i and the adaptation b.

\* The table with LSNNRecurrent in the place of LSNN.
NeuronModels_RecurrentWithTime ==
  [r \in BOOLEAN |->
     [recurrence |-> r,
      without_time |-> IF r THEN "LSNNRecurrentCell" ELSE "LSNNCell",
      with_time |-> "LSNNRecurrent"]]

NeuronModels ==
  [r \in BOOLEAN |->
     [recurrence |-> r,
      without_time |-> IF r THEN "LSNNRecurrentCell" ELSE "LSNNCell",
      with_time |-> IF r THEN "LSNNRecurrent" ELSE "LSNN"]]

tau_adapt == 700

beta_tenths == 18

recurrent_weights == 1

LSNNInitialState == [z |-> 0, v |-> v_leak * Unit, i |-> 0, b |-> v_th * Unit]

\* One step of the neuron: voltage, current and adaptation decay, a spike
\* is emitted when the voltage is above the adapted threshold, and the input
\* (and, with recurrence w, the last spike) is added to the current.
LSNNStep(data, s, w) ==
  LET v_decayed == s.v + (tau_mem_inv * ((v_leak * Unit - s.v) + s.i)) \div DtInv
      i_decayed == s.i - (tau_syn_inv * s.i) \div DtInv
      b_decayed == s.b + (v_th * Unit - s.b) \div (tau_adapt * DtInv)
      z_new == IF v_decayed - b_decayed > 0 THEN 1 ELSE 0
  IN [spikes |-> z_new,
      state |-> [z |-> z_new,
                 v |-> IF z_new = 1 THEN v_reset * Unit ELSE v_decayed,
                 i |-> i_decayed + data * Unit + w * s.z * Unit,
                 b |-> b_decayed + (z_new * beta_tenths * Unit) \div (10 * tau_adapt)]]

\* Without time: one step on an input that has no time dimension, from the
\* state given (the initial state when none is given).
LSNNCell(data, s) ==
  LSNNStep(data, IF s = NoState THEN LSNNInitialState ELSE s, 0)

LSNNRecurrentCell(data, s) ==
  LSNNStep(data, IF s = NoState THEN LSNNInitialState ELSE s, recurrent_weights)

\* With time: the loop over the first dimension of the input, from step t
\* on, with the outputs collected so far.
RECURSIVE Unroll(_, _, _, _, _)
Unroll(input, t, s, outputs, w) ==
  IF t > Len(input) THEN [outputs |-> outputs, state |-> s]
  ELSE LET r == LSNNStep(input[t], s, w)
       IN Unroll(input, t + 1, r.state, Append(outputs, r.spikes), w)

LSNN(input, s) ==
  Unroll(input, 1, IF s = NoState THEN LSNNInitialState ELSE s, <<>>, 0)

LSNNRecurrent(input, s) ==
  Unroll(input, 1, IF s = NoState THEN LSNNInitialState ELSE s, <<>>, recurrent_weights)

\* A module of the table applied by its name.
Apply(name, input, s) ==
  CASE name = "LSNNCell" -> LSNNCell(input, s)
    [] name = "LSNNRecurrentCell" -> LSNNRecurrentCell(input, s)
    [] name = "LSNN" -> LSNN(input, s)
    [] name = "LSNNRecurrent" -> LSNNRecurrent(input, s)

NoModel == [recurrence |-> FALSE, without_time |-> "none", with_time |-> "none"]

NoResult == [none |-> TRUE]

TimeStart ==
  /\ model = NoModel
  /\ xs = <<>>
  /\ zs = <<>>
  /\ cstate = NoState
  /\ mres = NoResult

\* A row of the table is taken: without or with recurrence.
ChooseModel(r) ==
  /\ model = NoModel
  /\ model' = NeuronModels[r]
  /\ UNCHANGED <<xs, zs, cstate, mres, civars, recipevars, cellvars>>

\* The module without time is given the next input and the state its call
\* before returned.
CellInvoke(data) ==
  /\ model # NoModel
  /\ mres = NoResult
  /\ Len(xs) < MaxSteps
  /\ LET r == Apply(model.without_time, data, cstate) IN
       /\ zs' = Append(zs, r.spikes)
       /\ cstate' = r.state
  /\ xs' = Append(xs, data)
  /\ UNCHANGED <<model, mres, civars, recipevars, cellvars>>

\* The module with time is given the inputs of all the steps at once, time
\* in the first dimension, and no state.
ModuleApply ==
  /\ model # NoModel
  /\ mres = NoResult
  /\ Len(xs) >= 1
  /\ mres' = Apply(model.with_time, xs, NoState)
  /\ UNCHANGED <<model, xs, zs, cstate, civars, recipevars, cellvars>>

TimeNext ==
  \/ \E r \in BOOLEAN : ChooseModel(r)
  \/ \E data \in 0..MaxInput : CellInvoke(data)
  \/ ModuleApply

---------------------------------------------------------------------------
Init == CIStart /\ RecipeStart /\ CellStart /\ TimeStart

CINext ==
  \/ \E e \in Events, w \in Range(Workflows) :
       \E D \in SUBSET Range(w.jobs) : Trigger(e, w, D)
  \/ \E e \in Events : Ignore(e)
  \/ StartJob
  \/ \E j \in JobIds : StepSucceeds(j)
  \/ \E j \in JobIds : StepFails(j)

\* A workflow run.
Spec == Init /\ [][CINext]_vars

\* A runner that is free takes a queued job, and a step that runs ends: some
\* job that can go on does go on.
Progress == StartJob \/ \E j \in JobIds : StepSucceeds(j) \/ StepFails(j)

\* A workflow run whose steps all terminate.
SpecLive == Spec /\ WF_vars(Progress)

\* The test stage of the recipe.
SpecRecipe == Init /\ [][RecipeNext]_vars

\* The documented use of a cell.
SpecCell == Init /\ [][CellNext]_vars

SpikesNext ==
  \/ CellNext
  \/ \E data \in 0..MaxInput : FreshCall(data)

\* A neuron model stepped without time and applied with time.
SpecTime == Init /\ [][TimeNext]_vars

\* A cell called with and without the state carried over.
SpecSpikes == Init /\ [][SpikesNext]_vars

---------------------------------------------------------------------------
\* What the claims read from a run.

\* Step i of job j has started: it concluded, it was cancelled while it ran,
\* or it is the step the job is executing.
Started(j, i) ==
  \/ i <= Len(job[j].log) /\ job[j].log[i] \in {"success", "failure", "cancelled"}
  \/ job[j].status = "in_progress" /\ Pc(j) = i

\* Step i of job j ran to its end.
Executed(j, i) == i <= Len(job[j].log) /\ job[j].log[i] \in {"success", "failure"}

Succeeded(j, i) == i <= Len(job[j].log) /\ job[j].log[i] = "success"

\* The steps of job j that do k.
StepsOfKind(j, k) == {i \in 1..Len(Steps(j)) : Steps(j)[i].kind = k}

JobsOfWorkflow(n) == {j \in JobIds : j.wf = n}

JobsOfDef(d) == {j \in JobIds : j.wf = d.wf /\ j.id = d.id}

Followed(j) == job[j].status # "none"

\* C1: in every job of the Publish To Pypi workflow, the step "Publish wheels
\* to PyPI" starts only after a wheel-build step earlier in the same job has
\* succeeded; no upload starts with the build failed or not yet executed.
C1_UploadOnlyAfterBuild ==
  \A j \in JobsOfWorkflow("Publish To Pypi") :
    /\ StepsOfKind(j, "upload") # {}
    /\ \A u \in StepsOfKind(j, "upload") :
         Started(j, u) => \E b \in StepsOfKind(j, "build") : b < u /\ Succeeded(j, b)

\* C1 happens: a matrix job and the linux job have both run their upload.
C1_Witness ==
  /\ \E j \in JobsOfDef(mac_windows_build) :
       \E u \in StepsOfKind(j, "upload") : Executed(j, u)
  /\ \E j \in JobsOfDef(linux_build) :
       \E u \in StepsOfKind(j, "upload") : Executed(j, u)

\* A job is uploading or has uploaded.
Uploads(j) == \E u \in StepsOfKind(j, "upload") : Started(j, u)

\* C2: an upload to the package index happens only in a run started by a
\* release event of type published; the workflows a push triggers have no
\* upload step, and the publish workflow has no other trigger.
C2_UploadOnlyOnReleasePublished ==
  /\ \A j \in JobIds : Uploads(j) => event = [name |-> "release", arg |-> "published"]
  /\ \A e \in Events : \A w \in TriggeredWorkflows(e) :
       /\ e.name = "push" =>
            \A d \in Range(w.jobs) : \A i \in 1..Len(d.steps) : d.steps[i].kind # "upload"
       /\ w.name = "Publish To Pypi" => e = [name |-> "release", arg |-> "published"]

\* C2 happens: a run started by release published has uploaded.
C2_Witness ==
  /\ event = [name |-> "release", arg |-> "published"]
  /\ \E j \in JobIds : \E u \in StepsOfKind(j, "upload") : Succeeded(j, u)

QualityJobs == JobsOfDef(build_python_ubuntu)

PushOffMaster == event.name = "push" /\ event.arg # "master"

\* The checks of the Code quality checks job, in the order claimed.
CheckOrder == <<"test", "typecheck", "lint", "coverage">>

\* C3: on a push to a branch other than master the Code quality checks job is
\* created once per Python version 3.7, 3.8, 3.9 and starts its checks in the
\* order unit tests, type check, lint, coverage upload, each after the one
\* before it has run; on a push to master no job of any workflow is created.
C3_QualityChecksInOrder ==
  /\ Cardinality(QualityJobs) = Cardinality({"3.7", "3.8", "3.9"})
  /\ {j.py : j \in QualityJobs} = {"3.7", "3.8", "3.9"}
  /\ \A e \in Events :
       (e.name = "push" /\ e.arg # "master")
         <=> (\E w \in TriggeredWorkflows(e) : w.name = "Python package")
  /\ (\E j \in QualityJobs : Followed(j)) =>
       PushOffMaster /\ \A j \in QualityJobs : Followed(j)
  /\ event = [name |-> "push", arg |-> "master"] => \A j \in JobIds : ~Followed(j)
  /\ \A j \in QualityJobs : \A n \in 1..(Len(CheckOrder) - 1) :
       /\ Cardinality(StepsOfKind(j, CheckOrder[n])) = 1
       /\ Cardinality(StepsOfKind(j, CheckOrder[n + 1])) = 1
       /\ \A a \in StepsOfKind(j, CheckOrder[n]) : \A b \in StepsOfKind(j, CheckOrder[n + 1]) :
            a < b /\ (Started(j, b) => Executed(j, a))

\* C3 happens: after a push off master, the job for Python 3.9 has run all
\* four checks.
C3_Witness ==
  /\ PushOffMaster
  /\ \E j \in QualityJobs :
       /\ j.py = "3.9"
       /\ \A n \in 1..Len(CheckOrder) : \E a \in StepsOfKind(j, CheckOrder[n]) : Executed(j, a)

\* C4: in the Code quality checks job the coverage upload starts only if the
\* unit tests, the type check and the lint of the same job succeeded, and a
\* job whose coverage upload ended in error is never reported successful: it
\* is a failed job.
C4_CoverageOnlyAfterChecks ==
  \A j \in QualityJobs : \A c \in StepsOfKind(j, "coverage") :
    /\ Started(j, c) =>
         \A k \in {"test", "typecheck", "lint"} :
           \E a \in StepsOfKind(j, k) : a < c /\ Succeeded(j, a)
    /\ (c <= Len(job[j].log) /\ job[j].log[c] = "failure") => job[j].status = "failure"

\* C4 happens: a coverage upload has ended in error.
C4_Witness ==
  \E j \in QualityJobs : \E c \in StepsOfKind(j, "coverage") :
    c <= Len(job[j].log) /\ job[j].log[c] = "failure"

\* The first failing step of a job keeps every later step from running.
FailureStopsJob(j) ==
  \A i \in 1..Len(job[j].log) :
    job[j].log[i] = "failure" => \A k \in (i + 1)..Len(Steps(j)) : ~Started(j, k)

\* A job succeeds exactly when every step it executed succeeded.
SuccessIffStepsSucceeded(j) ==
  job[j].status = "success" <=> \A i \in 1..Len(job[j].log) : Executed(j, i) => Succeeded(j, i)

\* The Cache step skipped by its `if:` (env.ACT set) neither fails the job
\* nor skips a later step: the job goes on with the step after it, and it
\* fails only if a later step fails.
SkippedCacheIsHarmless(j) ==
  \A c \in StepsOfKind(j, "cache") :
    (act /\ c < Pc(j) /\ \A i \in 1..(c - 1) : Succeeded(j, i)) =>
      /\ job[j].log[c] = "skipped"
      /\ job[j].status = "in_progress" => Started(j, Pc(j))
      /\ job[j].status = "success" => \A k \in (c + 1)..Len(Steps(j)) : Succeeded(j, k)
      /\ job[j].status = "failure" => \E k \in (c + 1)..Len(Steps(j)) : job[j].log[k] = "failure"

\* C5 as claimed: every job that has ended either succeeded or failed, it
\* succeeded exactly when every step it executed succeeded, the first failing
\* step keeps the later steps from running, and a skipped Cache step neither
\* fails the job nor skips a later step.
C5_Original ==
  \A j \in JobIds :
    /\ Completed(j) => job[j].status \in {"success", "failure"} /\ SuccessIffStepsSucceeded(j)
    /\ FailureStopsJob(j)
    /\ SkippedCacheIsHarmless(j)

\* C5 amended: the same of every job that was not cancelled; a job of a
\* matrix is cancelled, its remaining steps not run, when another job of the
\* same matrix fails, and a cancelled job has neither succeeded nor failed.
C5_BinaryOutcomeUnlessCancelled ==
  \A j \in JobIds :
    /\ job[j].status \in {"success", "failure"} => SuccessIffStepsSucceeded(j)
    /\ FailureStopsJob(j)
    /\ job[j].status # "cancelled" => SkippedCacheIsHarmless(j)
    /\ job[j].status = "cancelled" =>
         /\ \E k \in Siblings(j) : job[k].status = "failure"
         /\ \A i \in 1..Len(Steps(j)) : job[j].log[i] \in {"success", "cancelled", "skipped"}

\* C5 happens: with env.ACT set, one job of a matrix succeeded with its Cache
\* step skipped, and another failed at its unit tests with the rest skipped.
C5_Witness ==
  /\ act
  /\ \E j \in QualityJobs :
       job[j].status = "success" /\ \E c \in StepsOfKind(j, "cache") : job[j].log[c] = "skipped"
  /\ \E j \in QualityJobs : \E t \in StepsOfKind(j, "test") :
       job[j].status = "failure" /\ job[j].log[t] = "failure"

NoNeeds == \A d \in Range(JobDefs) : d.needs = {}

\* C6 as claimed: no job needs another, and no job is ever cancelled or kept
\* from its steps by the failure of another job or matrix combination.
C6_Original ==
  /\ NoNeeds
  /\ \A k \in JobIds : job[k].status # "cancelled"

\* C6 amended: no job needs another, and a failed job leaves the jobs of
\* other job definitions alone; within a matrix (fail-fast is not switched
\* off) a failed combination cancels the queued and running combinations.
C6_IndependentAcrossDefinitions ==
  /\ NoNeeds
  /\ \A k \in JobIds :
       job[k].status = "cancelled" =>
         Def(k).isMatrix /\ \E j \in Siblings(k) : job[j].status = "failure"
  /\ \A k \in JobIds :
       (job[k].status \in {"queued", "in_progress"} /\ Def(k).isMatrix) =>
         \A j \in Siblings(k) : job[j].status # "failure"

\* C6 happens: a matrix job failed, another job of the matrix was cancelled
\* while it ran, and the job of the other definition succeeded.
C6_Witness ==
  /\ \E j \in JobsOfDef(mac_windows_build) : job[j].status = "failure"
  /\ \E k \in JobsOfDef(mac_windows_build) :
       job[k].status = "cancelled" /\ \E i \in 1..Len(job[k].log) : job[k].log[i] = "cancelled"
  /\ \E l \in JobsOfDef(linux_build) : job[l].status = "success"

PublishJobs == JobsOfWorkflow("Publish To Pypi")

\* The CPython version a wheel tag of the manylinux build stands for.
TagVersion(t) ==
  CASE t = "cp36-cp36m" -> "3.6"
    [] t = "cp37-cp37m" -> "3.7"
    [] t = "cp38-cp38" -> "3.8"
    [] t = "cp39-cp39" -> "3.9"
    [] OTHER -> "unknown"

\* The platform and Python versions a job that uploaded has published for.
Published(j) ==
  IF Def(j) = linux_build
  THEN {<<linux_build_with.image, TagVersion(linux_build_with.python_versions[n])>> :
          n \in 1..Len(linux_build_with.python_versions)}
  ELSE {<<j.os, j.py>>}

\* C7: a publish run in which every job succeeded consists of one linux-build
\* job and six mac-windows-build jobs, each with exactly one upload step,
\* which succeeded after the job's build, and has published for manylinux2014
\* CPython 3.7, 3.8, 3.9 and for every os in {macos-latest, windows-latest}
\* with every Python in {3.7, 3.8, 3.9}.
C7_AllSucceededPublishesAll ==
  (\A j \in PublishJobs : job[j].status = "success") =>
    /\ Cardinality(JobsOfDef(linux_build)) = 1
    /\ Cardinality(JobsOfDef(mac_windows_build)) = 6
    /\ PublishJobs = JobsOfDef(linux_build) \cup JobsOfDef(mac_windows_build)
    /\ \A j \in PublishJobs :
         /\ Cardinality(StepsOfKind(j, "upload")) = 1
         /\ \A u \in StepsOfKind(j, "upload") : Succeeded(j, u)
         /\ \E b \in StepsOfKind(j, "build") : Succeeded(j, b)
    /\ UNION {Published(j) : j \in PublishJobs} =
         ({"manylinux2014_x86_64"} \X {"3.7", "3.8", "3.9"}) \cup
         ({"macos-latest", "windows-latest"} \X {"3.7", "3.8", "3.9"})

\* C7 happens: every job of a publish run has succeeded.
C7_Witness == \A j \in PublishJobs : job[j].status = "success"

DocsJobs == JobsOfDef(build_docs)

\* C8: the Documentation Build workflow is started by a push to any branch
\* but master and by no push to master, and in its job the step Compile docs
\* starts only after the step that installs docs/requirements.txt and the
\* package has succeeded.
C8_DocsAfterInstall ==
  /\ \A e \in Events :
       e.name = "push" =>
         (e.arg # "master" <=> \E w \in TriggeredWorkflows(e) : w.name = "Documentation Build")
  /\ \A j \in DocsJobs :
       /\ Followed(j) => PushOffMaster
       /\ \A c \in StepsOfKind(j, "docs") :
            Started(j, c) => \E a \in StepsOfKind(j, "install") : a < c /\ Succeeded(j, a)

\* C8 happens: after a push off master the docs have been compiled.
C8_Witness ==
  /\ PushOffMaster
  /\ \E j \in DocsJobs : \E c \in StepsOfKind(j, "docs") : Executed(j, c)

\* C9: the test stage imports norse and torch and then runs the test suite
\* with pytest, and it never stops for a missing module, tool or option: all
\* it imports and invokes comes with the output, a run requirement (torch with
\* pytorch) or a test requirement (pytest, and -n with pytest-xdist).
C9_TestStageDeclared ==
  /\ tpc.stage # "failed"
  /\ test_imports = <<"norse", "torch">>
  /\ \A n \in 1..Len(test_commands) : test_commands[n].tool = "pytest"
  /\ <<"module", "torch">> \in Provides("pytorch") /\ "pytorch" \in requirements_run
  /\ \A n \in 1..Len(test_imports) :
       ImportNeeds(n) \subseteq UNION {Provides(p) : p \in {recipe_name} \cup requirements_run}
  /\ \A n \in 1..Len(test_commands) :
       CommandNeeds(n) \subseteq UNION {Provides(p) : p \in test_requires}
  /\ tpc.stage \in {"commands", "tests-failed", "passed"} => env = TestEnv

\* C9 happens: the imports were done and the test suite has run and passed.
C9_Witness == tpc.stage = "passed" /\ env = TestEnv

\* C10: the first call of the cell is made without state; every call returns
\* spikes and a state made of a voltage v and a current i; and the state a
\* later call is given is the state the call before it returned.
C10_StateThreaded ==
  /\ calls = 1 => arg = NoState
  /\ calls >= 1 => DOMAIN state = {"v", "i"} /\ spikes \in {0, 1}
  /\ calls >= 2 => arg = prev /\ DOMAIN arg = {"v", "i"}
  /\ calls >= 1 => [spikes |-> spikes, state |-> state] \in
                     {LIFCell(data, arg) : data \in 0..MaxInput}

\* C10 happens: a third call was made, with a state that is no longer the
\* initial one.
C10_Witness == calls = 3 /\ arg # InitialState /\ arg # NoState /\ state.v > 0

UsedState == IF arg = NoState THEN InitialState ELSE arg

C13_Original ==
  \A j \in PublishJobs : \A u \in StepsOfKind(j, "upload") :
    Started(j, u) => \E t \in StepsOfKind(j, "test") : t < u /\ Succeeded(j, t)

\* The files a job of the publish workflow has in dist/ after its build: the
\* manylinux wheels of the tags built for, or what `setup.py` was told to
\* build (the source distribution does not depend on os or Python).
WheelFile(platform, py) == <<recipe_name, "wheel", platform, py>>

SdistFile == <<recipe_name, "sdist">>

Dist(j) ==
  IF Def(j).id = "linux-build"
  THEN {WheelFile(linux_build_with.image, TagVersion(linux_build_with.python_versions[n])) :
          n \in 1..Len(linux_build_with.python_versions)}
  ELSE UNION { IF c = "bdist_wheel" THEN {WheelFile(j.os, j.py)}
               ELSE IF c = "sdist" THEN {SdistFile}
               ELSE {} : c \in Range(mac_windows_build_wheel) }

\* The files the upload of job j is given, once it runs.
Uploading(j) == IF Uploads(j) /\ twine_upload = "dist/*" THEN Dist(j) ELSE {}

\* C14 as claimed: within a publish run no two jobs upload a file of the
\* same name.
C14_Original ==
  \A j \in PublishJobs : \A k \in PublishJobs \ {j} : Uploading(j) \cap Uploading(k) = {}

\* C15 as claimed: if any job of a publish run has failed, no job of the run
\* has uploaded.
C15_Original ==
  (\E j \in PublishJobs : job[j].status = "failure") =>
    \A k \in PublishJobs : \A u \in StepsOfKind(k, "upload") : ~Succeeded(k, u)

\* The platform an os label or a manylinux image stands for.
Platform(o) ==
  CASE o = "ubuntu-latest" -> "Linux"
    [] o = "manylinux2014_x86_64" -> "Linux"
    [] o = "macos-latest" -> "macOS"
    [] o = "windows-latest" -> "Windows"
    [] OTHER -> o

PushBuildJobs == JobsOfDef(build_python_mac_windows)

\* C16: every platform and Python version the publish workflow publishes for
\* (macOS and Windows with 3.7, 3.8, 3.9 and Linux with 3.7, 3.8, 3.9) is the
\* platform and Python version of a job of the push workflow's build matrix
\* that has a unit-test step and a wheel-build step, and in those jobs the
\* wheel build starts only after the unit tests of the job have succeeded.
C16_PublishMatrixWithinPushMatrix ==
  /\ {<<Platform(c[1]), c[2]>> : c \in UNION {Published(j) : j \in PublishJobs}}
       = {"Linux", "macOS", "Windows"} \X {"3.7", "3.8", "3.9"}
  /\ \A j \in PublishJobs : \A c \in Published(j) :
       \E k \in PushBuildJobs :
         /\ <<Platform(k.os), k.py>> = <<Platform(c[1]), c[2]>>
         /\ StepsOfKind(k, "test") # {} /\ StepsOfKind(k, "build") # {}
  /\ \A k \in PushBuildJobs : \A b \in StepsOfKind(k, "build") :
       Started(k, b) => \E t \in StepsOfKind(k, "test") : t < b /\ Succeeded(k, t)

\* C16 happens: after a push, the build-matrix job for Windows and Python 3.9
\* has built its wheel.
C16_Witness ==
  /\ PushOffMaster
  /\ \E k \in PushBuildJobs :
       /\ k.os = "windows-latest" /\ k.py = "3.9"
       /\ \E b \in StepsOfKind(k, "build") : Succeeded(k, b)

\* Every job of the run has ended.
AllEnded == \A j \in JobIds : Followed(j) => Completed(j)

\* C17 as claimed: after a trigger every job of the run eventually has
\* succeeded or failed.
C17_Original ==
  (event # NoEvent) ~>
    (\A j \in JobIds : Followed(j) => job[j].status \in {"success", "failure"})

\* C17 amended: every job is a finite list of steps gone through once, no job
\* waits for ever on another, and after a trigger every job of the run
\* eventually has ended and stays so: it succeeded, it failed, or it was
\* cancelled by the failure of a job of its matrix.
C17_EveryRunTerminates ==
  /\ [](\A j \in JobIds : Len(job[j].log) <= Len(Steps(j)))
  /\ (event # NoEvent) ~> [](AllEnded)

\* C17 happens: a run has ended with a job succeeded, a job failed and a job
\* cancelled.
C17_Witness ==
  /\ event # NoEvent /\ AllEnded
  /\ \E j \in JobIds : job[j].status = "success"
  /\ \E j \in JobIds : job[j].status = "failure"
  /\ \E j \in JobIds : job[j].status = "cancelled"

\* C18 as claimed: the version of the package the recipe builds, and which
\* its test stage has imported, is the version the documentation shows
\* norse.__version__ to be.
C18_Original ==
  tpc.stage \in {"commands", "tests-failed", "passed"} => version = norse_version_shown

====
